---- MODULE Spec2Model ----
(***************************************************************************)
(* Model of src/memory/wrapper.h (cpp-ipc):                                *)
(*   - async_wrapper<AllocP>: the lock-protected pool master_allocs_ and   *)
(*     the thread-local alloc_proxy that checks instances out and in;      *)
(*   - default_mapping_policy / variable_wrapper: size classification and  *)
(*     dispatch to a fixed-size bucket or to the fallback allocator;       *)
(*   - allocator_wrapper<T, AllocP>::allocate.                             *)
(*                                                                         *)
(* Spec runs the pool (threads and engines of one allocator type);         *)
(* DispatchSpec runs the stateless dispatcher, whose calls are recorded in *)
(* instrumentation variables.  LifoSpec runs the pool from the state in    *)
(* which every thread holds a proxy, MoveSpec adds proxies without an      *)
(* engine and move construction, TeardownSpec adds ~async_wrapper, and     *)
(* FairSpec is the pool with every thread inside an operation scheduled.   *)
(***************************************************************************)
EXTENDS Integers, Sequences, FiniteSets, TLC

\* ------------------------------------------------------------------------
\* Bounds of the model
\* ------------------------------------------------------------------------
NumThreads == 2     \* threads that use the engines
NumEngines == 2     \* async_wrapper objects of the same AllocP type
MaxOps     == 3     \* operations (alloc, free, clear, thread exit, ...) begun in one run
MaxSize    == 260   \* largest request size tried (past base_size * classes_size)
MaxLive    == 2     \* blocks outstanding at the dispatcher at one time
SizeBits   == 10    \* width of std::size_t in the model
FairOps    == 2     \* operations begun in one run of the progress check

Threads == 1 .. NumThreads
Engines == 1 .. NumEngines

NoEngine == 0       \* w_ == nullptr
NoInst   == 0       \* the state of a moved-from AllocP

\* ------------------------------------------------------------------------
\* State of the pool model
\* ------------------------------------------------------------------------
VARIABLES
    master_lock_,    \* [Engines -> SUBSET Threads]: who holds the spin_lock
    master_allocs_,  \* [Engines -> Seq(instance)]: the pool of spare instances
    tls_alc,         \* [Threads -> proxy]: the thread's slot of the static tls pointer
    pc,              \* [Threads -> position in the running operation]
    call,            \* [Threads -> the operation the thread is executing]
    used,            \* [Threads -> engines the thread has called alloc/free on]
    nextInst,        \* number of instances default-constructed so far
    ops,             \* number of operations begun so far
    cleared,         \* instances destroyed by master_allocs_.clear()
    popped,          \* instances destroyed by master_allocs_.pop_back()
    touched,         \* instances some thread has called alloc/free on
    sinceClear,      \* [Engines -> BOOLEAN]: clear() returned and nothing was checked in since
    order,           \* the states checked in so far, oldest first
    lifetime,        \* [Engines -> "live", "dying" (in ~async_wrapper) or "dead"]
    moved            \* [Threads -> proxy]: the proxy move-constructed from the thread's one

\* ------------------------------------------------------------------------
\* Instrumentation of the (stateless) dispatcher and of the STL adapter
\* ------------------------------------------------------------------------
VARIABLES
    size,            \* the request: a byte size, or the element count of allocate
    elem,            \* sizeof(T) of allocator_wrapper<T, AllocP>
    live,            \* blocks handed out and not yet freed: [size, alc at alloc time]
    calls,           \* calls the most recent operation forwarded: [op, alc, size]
    last             \* the most recent operation: [op, arg, cls, ret, alc]

dispVars == <<size, elem, live, calls, last>>

\* Check-in history, engine lifetimes and move-constructed proxies
lifeVars == <<order, lifetime, moved>>

poolVars == <<master_lock_, master_allocs_, tls_alc, pc, call, used, nextInst, ops,
              cleared, popped, touched, sinceClear, lifeVars>>

\* alloc_proxy: the AllocP base (its state) and the back reference w_.
NoProxy == [w_ |-> NoEngine, state |-> NoInst, live |-> FALSE]

\* The operation a thread is in: the engine it was called on, whether that
\* engine had been cleared with no check-in since when the operation began,
\* and the number of times the operation has acquired a master_lock_.
NoCall == [e |-> NoEngine, afterClear |-> FALSE, acq |-> 0]

PoolInit ==
    /\ master_lock_ = [e \in Engines |-> {}]
    /\ master_allocs_ = [e \in Engines |-> <<>>]
    /\ tls_alc = [t \in Threads |-> NoProxy]
    /\ pc = [t \in Threads |-> "idle"]
    /\ call = [t \in Threads |-> NoCall]
    /\ used = [t \in Threads |-> {}]
    /\ nextInst = 0
    /\ ops = 0
    /\ cleared = {}
    /\ popped = {}
    /\ touched = {}
    /\ sinceClear = [e \in Engines |-> FALSE]
    /\ order = <<>>
    /\ lifetime = [e \in Engines |-> "live"]
    /\ moved = [t \in Threads |-> NoProxy]

\* ------------------------------------------------------------------------
\* spin_lock / unique_lock (rw_lock.h, platform/detail.h): exclusive section
\* ------------------------------------------------------------------------
LockFree(e) == master_lock_[e] = {}

Acquire(t, e) ==
    /\ master_lock_' = [master_lock_ EXCEPT ![e] = @ \cup {t}]
    /\ call' = [call EXCEPT ![t].acq = 1]

Release(t, e) == master_lock_' = [master_lock_ EXCEPT ![e] = @ \ {t}]

\* tls::pointer<alloc_proxy>::create: the slot of the calling thread, filled
\* on the first call only.  The slot belongs to the function-local static of
\* get_alloc(), so it is one slot per thread for all engines of the type.
HasProxy(t) == tls_alc[t].live

\* ------------------------------------------------------------------------
\* async_wrapper::alloc / free  ->  get_alloc()
\* ------------------------------------------------------------------------
\* Mutant of GetAlloc: a proxy is constructed on every call, not only on
\* the first one of the thread.
GetAllocEveryCall(t, e) ==
    /\ pc[t] = "idle"
    /\ ops < MaxOps
    /\ ops' = ops + 1
    /\ call' = [call EXCEPT ![t] = [e |-> e, afterClear |-> sinceClear[e], acq |-> 0]]
    /\ nextInst' = nextInst + 1
    /\ tls_alc' = [tls_alc EXCEPT ![t] = [w_ |-> e, state |-> nextInst + 1,
                                          live |-> TRUE]]
    /\ pc' = [pc EXCEPT ![t] = "ctor_lock"]
    /\ UNCHANGED <<master_lock_, master_allocs_, used, cleared, popped, touched,
                   sinceClear, lifeVars, dispVars>>

\* get_alloc(): tls_alc.create(this) returns the thread's proxy, or runs
\* new alloc_proxy(this) first: the AllocP base is default-constructed and
\* w_ is set before the constructor body runs.
GetAlloc(t, e) ==
    /\ pc[t] = "idle"
    /\ ops < MaxOps
    /\ ops' = ops + 1
    /\ call' = [call EXCEPT ![t] = [e |-> e, afterClear |-> sinceClear[e], acq |-> 0]]
    /\ IF HasProxy(t)
       THEN /\ pc' = [pc EXCEPT ![t] = "serve"]
            /\ UNCHANGED <<tls_alc, nextInst>>
       ELSE /\ nextInst' = nextInst + 1
            /\ tls_alc' = [tls_alc EXCEPT ![t] = [w_ |-> e, state |-> nextInst + 1,
                                                  live |-> TRUE]]
            /\ pc' = [pc EXCEPT ![t] = "ctor_lock"]
    /\ UNCHANGED <<master_lock_, master_allocs_, used, cleared, popped, touched,
                   sinceClear, lifeVars, dispVars>>

Alloc(t, e) == GetAlloc(t, e)

Free(t, e) == GetAlloc(t, e)

\* ------------------------------------------------------------------------
\* alloc_proxy::alloc_proxy(async_wrapper* w)
\* ------------------------------------------------------------------------
\* if (w_ == nullptr) return;  auto guard = unique_lock(w_->master_lock_);
CtorLock(t) ==
    /\ pc[t] = "ctor_lock"
    /\ IF tls_alc[t].w_ = NoEngine
       THEN /\ pc' = [pc EXCEPT ![t] = "serve"]
            /\ UNCHANGED <<master_lock_, call>>
       ELSE /\ LockFree(tls_alc[t].w_)
            /\ Acquire(t, tls_alc[t].w_)
            /\ pc' = [pc EXCEPT ![t] = "ctor_check"]
    /\ UNCHANGED <<master_allocs_, tls_alc, used, nextInst, cleared, popped,
                   touched, sinceClear, ops, lifeVars, dispVars>>

\* if (!w_->master_allocs_.empty())
CtorCheck(t) ==
    /\ pc[t] = "ctor_check"
    /\ pc' = [pc EXCEPT ![t] = IF master_allocs_[tls_alc[t].w_] = <<>>
                                THEN "ctor_unlock" ELSE "ctor_swap"]
    /\ UNCHANGED <<master_lock_, master_allocs_, tls_alc, call, used, nextInst,
                   cleared, popped, touched, sinceClear, ops, lifeVars, dispVars>>

\* Mutant of CtorSwap: the proxy copies back() instead of swapping with it.
CtorSwapCopy(t) ==
    LET e == tls_alc[t].w_
        n == Len(master_allocs_[e])
    IN  /\ pc[t] = "ctor_swap"
        /\ tls_alc' = [tls_alc EXCEPT ![t].state = master_allocs_[e][n]]
        /\ pc' = [pc EXCEPT ![t] = "ctor_pop"]
        /\ UNCHANGED <<master_lock_, master_allocs_, call, used, nextInst, cleared,
                       popped, touched, sinceClear, ops, lifeVars, dispVars>>

\* Mutant of CtorSwap: the proxy swaps with front() instead of back().
CtorSwapFront(t) ==
    LET e == tls_alc[t].w_
    IN  /\ pc[t] = "ctor_swap"
        /\ tls_alc' = [tls_alc EXCEPT ![t].state = master_allocs_[e][1]]
        /\ master_allocs_' = [master_allocs_ EXCEPT ![e][1] = tls_alc[t].state]
        /\ pc' = [pc EXCEPT ![t] = "ctor_pop"]
        /\ UNCHANGED <<master_lock_, call, used, nextInst, cleared, popped,
                       touched, sinceClear, ops, lifeVars, dispVars>>

\* AllocP::swap(w_->master_allocs_.back());
CtorSwap(t) ==
    LET e == tls_alc[t].w_
        n == Len(master_allocs_[e])
    IN  /\ pc[t] = "ctor_swap"
        /\ tls_alc' = [tls_alc EXCEPT ![t].state = master_allocs_[e][n]]
        /\ master_allocs_' = [master_allocs_ EXCEPT ![e][n] = tls_alc[t].state]
        /\ pc' = [pc EXCEPT ![t] = "ctor_pop"]
        /\ UNCHANGED <<master_lock_, call, used, nextInst, cleared, popped,
                       touched, sinceClear, ops, lifeVars, dispVars>>

\* w_->master_allocs_.pop_back();
CtorPop(t) ==
    LET e == tls_alc[t].w_
        n == Len(master_allocs_[e])
    IN  /\ pc[t] = "ctor_pop"
        /\ master_allocs_' = [master_allocs_ EXCEPT ![e] = SubSeq(@, 1, n - 1)]
        /\ popped' = popped \cup {master_allocs_[e][n]}
        /\ pc' = [pc EXCEPT ![t] = "ctor_unlock"]
        /\ UNCHANGED <<master_lock_, tls_alc, call, used, nextInst, cleared,
                       touched, sinceClear, ops, lifeVars, dispVars>>

\* Mutant of CtorUnlock: the constructor returns without releasing master_lock_.
CtorUnlockKeepsLock(t) ==
    /\ pc[t] = "ctor_unlock"
    /\ pc' = [pc EXCEPT ![t] = "serve"]
    /\ UNCHANGED <<master_lock_, master_allocs_, tls_alc, call, used, nextInst,
                   cleared, popped, touched, sinceClear, ops, lifeVars, dispVars>>

\* end of the constructor: the guard releases master_lock_
CtorUnlock(t) ==
    /\ pc[t] = "ctor_unlock"
    /\ Release(t, tls_alc[t].w_)
    /\ pc' = [pc EXCEPT ![t] = "serve"]
    /\ UNCHANGED <<master_allocs_, tls_alc, call, used, nextInst, cleared, popped,
                   touched, sinceClear, ops, lifeVars, dispVars>>

\* get_alloc().alloc(size) / get_alloc().free(p, size): the call is delegated
\* to the AllocP state of the thread's proxy.
Serve(t) ==
    /\ pc[t] = "serve"
    /\ touched' = touched \cup {tls_alc[t].state}
    /\ used' = [used EXCEPT ![t] = @ \cup {call[t].e}]
    /\ call' = [call EXCEPT ![t] = NoCall]
    /\ pc' = [pc EXCEPT ![t] = "idle"]
    /\ UNCHANGED <<master_lock_, master_allocs_, tls_alc, nextInst, cleared, popped,
                   sinceClear, ops, lifeVars, dispVars>>

\* ------------------------------------------------------------------------
\* alloc_proxy::~alloc_proxy(), run by the tls slot when the thread exits
\* ------------------------------------------------------------------------
ThreadExit(t) ==
    /\ pc[t] = "idle"
    /\ ops < MaxOps
    /\ ops' = ops + 1
    /\ HasProxy(t)
    /\ call' = [call EXCEPT ![t] = [NoCall EXCEPT !.e = tls_alc[t].w_]]
    /\ pc' = [pc EXCEPT ![t] = "dtor_lock"]
    /\ UNCHANGED <<master_lock_, master_allocs_, tls_alc, used, nextInst, cleared,
                   popped, touched, sinceClear, lifeVars, dispVars>>

\* if (w_ == nullptr) return;  auto guard = unique_lock(w_->master_lock_);
DtorLock(t) ==
    /\ pc[t] = "dtor_lock"
    /\ IF tls_alc[t].w_ = NoEngine
       THEN /\ pc' = [pc EXCEPT ![t] = "dtor_done"]
            /\ UNCHANGED <<master_lock_, call>>
       ELSE /\ LockFree(tls_alc[t].w_)
            /\ Acquire(t, tls_alc[t].w_)
            /\ pc' = [pc EXCEPT ![t] = "dtor_emplace"]
    /\ UNCHANGED <<master_allocs_, tls_alc, used, nextInst, cleared, popped,
                   touched, sinceClear, ops, lifeVars, dispVars>>

\* w_->master_allocs_.emplace_back(std::move(*this));
DtorEmplace(t) ==
    LET e == tls_alc[t].w_
    IN  /\ pc[t] = "dtor_emplace"
        /\ master_allocs_' = [master_allocs_ EXCEPT ![e] = Append(@, tls_alc[t].state)]
        /\ tls_alc' = [tls_alc EXCEPT ![t].state = NoInst]
        /\ sinceClear' = [sinceClear EXCEPT ![e] = FALSE]
        /\ call' = [u \in Threads |->
                      IF call[u].e = e THEN [call[u] EXCEPT !.afterClear = FALSE]
                      ELSE call[u]]
        /\ order' = Append(order, tls_alc[t].state)
        /\ pc' = [pc EXCEPT ![t] = "dtor_done"]
        /\ UNCHANGED <<master_lock_, used, nextInst, cleared, popped, touched, ops,
                       lifetime, moved, dispVars>>

\* end of the destructor: the guard releases master_lock_ (when one was
\* taken), the proxy is gone and so is the thread; the identity t then
\* stands for a thread that has not used any engine yet.
DtorDone(t) ==
    /\ pc[t] = "dtor_done"
    /\ IF tls_alc[t].w_ = NoEngine
       THEN UNCHANGED master_lock_
       ELSE Release(t, tls_alc[t].w_)
    /\ tls_alc' = [tls_alc EXCEPT ![t] = NoProxy]
    /\ used' = [used EXCEPT ![t] = {}]
    /\ call' = [call EXCEPT ![t] = NoCall]
    /\ pc' = [pc EXCEPT ![t] = "idle"]
    /\ UNCHANGED <<master_allocs_, nextInst, cleared, popped, touched, sinceClear, ops, lifeVars, dispVars>>

\* ------------------------------------------------------------------------
\* async_wrapper::clear()
\* ------------------------------------------------------------------------
Clear(t, e) ==
    /\ pc[t] = "idle"
    /\ ops < MaxOps
    /\ ops' = ops + 1
    /\ call' = [call EXCEPT ![t] = [NoCall EXCEPT !.e = e]]
    /\ pc' = [pc EXCEPT ![t] = "clear_lock"]
    /\ UNCHANGED <<master_lock_, master_allocs_, tls_alc, used, nextInst, cleared,
                   popped, touched, sinceClear, lifeVars, dispVars>>

\* Mutant of ClearLock: clear() goes on without taking master_lock_.
ClearLockSkipped(t) ==
    /\ pc[t] = "clear_lock"
    /\ pc' = [pc EXCEPT ![t] = "clear_body"]
    /\ UNCHANGED <<master_lock_, master_allocs_, tls_alc, call, used, nextInst,
                   cleared, popped, touched, sinceClear, ops, lifeVars, dispVars>>

\* auto guard = unique_lock(master_lock_);
ClearLock(t) ==
    /\ pc[t] = "clear_lock"
    /\ LockFree(call[t].e)
    /\ Acquire(t, call[t].e)
    /\ pc' = [pc EXCEPT ![t] = "clear_body"]
    /\ UNCHANGED <<master_allocs_, tls_alc, used, nextInst, cleared, popped,
                   touched, sinceClear, ops, lifeVars, dispVars>>

\* master_allocs_.clear();
ClearBody(t) ==
    LET e == call[t].e
    IN  /\ pc[t] = "clear_body"
        /\ master_allocs_' = [master_allocs_ EXCEPT ![e] = <<>>]
        /\ cleared' = cleared \cup {master_allocs_[e][i] : i \in 1 .. Len(master_allocs_[e])}
        /\ pc' = [pc EXCEPT ![t] = "clear_unlock"]
        /\ UNCHANGED <<master_lock_, tls_alc, call, used, nextInst, popped, touched,
                       sinceClear, ops, lifeVars, dispVars>>

\* end of clear(): the guard releases master_lock_
ClearUnlock(t) ==
    /\ pc[t] = "clear_unlock"
    /\ Release(t, call[t].e)
    /\ sinceClear' = [sinceClear EXCEPT ![call[t].e] = TRUE]
    /\ call' = [call EXCEPT ![t] = NoCall]
    /\ pc' = [pc EXCEPT ![t] = "idle"]
    /\ UNCHANGED <<master_allocs_, tls_alc, used, nextInst, cleared, popped,
                   touched, ops, lifeVars, dispVars>>

PoolNext ==
    \/ \E t \in Threads, e \in Engines : Alloc(t, e)
    \/ \E t \in Threads, e \in Engines : Free(t, e)
    \/ \E t \in Threads : CtorLock(t)
    \/ \E t \in Threads : CtorCheck(t)
    \/ \E t \in Threads : CtorSwap(t)
    \/ \E t \in Threads : CtorPop(t)
    \/ \E t \in Threads : CtorUnlock(t)
    \/ \E t \in Threads : Serve(t)
    \/ \E t \in Threads : ThreadExit(t)
    \/ \E t \in Threads : DtorLock(t)
    \/ \E t \in Threads : DtorEmplace(t)
    \/ \E t \in Threads : DtorDone(t)
    \/ \E t \in Threads, e \in Engines : Clear(t, e)
    \/ \E t \in Threads : ClearLock(t)
    \/ \E t \in Threads : ClearBody(t)
    \/ \E t \in Threads : ClearUnlock(t)

\* ------------------------------------------------------------------------
\* default_mapping_policy<BaseSize = sizeof(void*)>
\* ------------------------------------------------------------------------
base_size == 8

classes_size == 32

\* std::size_t arithmetic: values are taken modulo 2^SizeBits
SizeMod == 2 ^ SizeBits

SizeMax == SizeMod - 1

\* Mutant of table: two neighbouring entries are exchanged.
tableSwapped ==
    <<0, 1, 2, 5,
      3, 5, 7, 7, 9, 9, 11, 11, 13, 13, 15, 15, 17, 17,
      19, 19, 21, 21, 23, 23, 25, 25, 27, 27, 29, 29, 31, 31>>

\* Mutant of table: the entry of index 4 rounds down to bucket index 3.
tableRoundsDown ==
    <<0, 1, 2, 3,
      3, 5, 7, 7, 9, 9, 11, 11, 13, 13, 15, 15, 17, 17,
      19, 19, 21, 21, 23, 23, 25, 25, 27, 27, 29, 29, 31, 31>>

\* table[classes_size]; the C++ index i is table[i + 1] here
table ==
    <<0, 1, 2, 3,
      5, 5, 7, 7, 9, 9, 11, 11, 13, 13, 15, 15, 17, 17,
      19, 19, 21, 21, 23, 23, 25, 25, 27, 27, 29, 29, 31, 31>>

\* Mutant of classify: size / base_size, without the "- 1".
classifyNoDecrement(s) ==
    IF (s \div base_size) < classes_size THEN table[(s \div base_size) + 1]
    ELSE classes_size

\* Mutant of classify: size - 1 does not wrap, so size 0 lands in the first class.
classifyNoWrap(s) ==
    IF s = 0 THEN table[1]
    ELSE IF ((s - 1) \div base_size) < classes_size THEN table[((s - 1) \div base_size) + 1]
    ELSE classes_size

\* (((size - 1) / base_size) < classes_size) ? table[(size - 1) / base_size] : classes_size
classify(s) ==
    IF (((s - 1) % SizeMod) \div base_size) < classes_size
    THEN table[(((s - 1) % SizeMod) \div base_size) + 1]
    ELSE classes_size

\* ------------------------------------------------------------------------
\* variable_wrapper<Fixed, StaticAlloc, MappingP>
\* ------------------------------------------------------------------------
\* The allocators a call can be forwarded to: Fixed<n> and StaticAlloc.
Fixed(n) == [kind |-> "Fixed", n |-> n]

StaticAlloc == [kind |-> "StaticAlloc", n |-> 0]

\* ipc::detail::static_switch<N>(i, f, def): f(index i) when i < N, else def()
RECURSIVE static_switch(_, _)
static_switch(N, i) ==
    IF N = 0 THEN [hit |-> FALSE, index |-> 0]
    ELSE IF i = N - 1 THEN [hit |-> TRUE, index |-> N - 1]
    ELSE static_switch(N - 1, i)

\* ipc::detail::static_for<N>(f): f(index 0), ..., f(index N - 1), in order
static_for(N) == [k \in 1 .. N |-> k - 1]

\* Mutant of choose: the bucket of nominal size index * base_size.
chooseOffByOne(s) ==
    LET r == static_switch(classes_size, classify(s))
    IN  IF r.hit THEN Fixed(r.index * base_size) ELSE StaticAlloc

\* choose(size, f): f is applied to Fixed<(index + 1) * base_size>{} for the
\* index classify(size) selects, or to StaticAlloc{} past the last class.
choose(s) ==
    LET r == static_switch(classes_size, classify(s))
    IN  IF r.hit THEN Fixed((r.index + 1) * base_size) ELSE StaticAlloc

\* What alc.alloc(size) can return.  The buckets and the fallback are
\* external: a pointer, or null when they are exhausted; a zero-size request
\* to the fallback performs no allocation.
AllocResults(alc, s) ==
    IF alc.kind = "StaticAlloc" /\ s = 0 THEN {"null"} ELSE {"ptr", "null"}

NoOp == [op |-> "none", arg |-> 0, cls |-> 0, ret |-> "none", alc |-> StaticAlloc]

Sizes == 0 .. MaxSize

SizeofT == {1, 2, 8}

DispatchIdle ==
    /\ size = 1
    /\ elem = 1
    /\ live = <<>>
    /\ calls = <<>>
    /\ last = NoOp

DispatchInit ==
    /\ size \in Sizes
    /\ elem \in SizeofT
    /\ live = <<>>
    /\ calls = <<>>
    /\ last = NoOp

\* alc.alloc(bytes) on the allocator choose(bytes) selects
ForwardAlloc(op, arg, bytes) ==
    /\ Len(live) < MaxLive
    /\ \E r \in AllocResults(choose(bytes), bytes) :
          /\ last' = [op |-> op, arg |-> arg, cls |-> classify(bytes), ret |-> r,
                      alc |-> choose(bytes)]
          /\ live' = IF r = "ptr"
                     THEN Append(live, [size |-> bytes, alc |-> choose(bytes)])
                     ELSE live
    /\ calls' = <<[op |-> "alloc", alc |-> choose(bytes), size |-> bytes]>>
    /\ UNCHANGED <<size, elem>>

\* variable_wrapper::alloc(size)
VwAlloc ==
    /\ ForwardAlloc("alloc", size, size)
    /\ UNCHANGED poolVars

\* Mutant of VwFree: free is forwarded to the fallback whatever the size.
VwFreeFallback(k) ==
    /\ k \in 1 .. Len(live)
    /\ calls' = <<[op |-> "free", alc |-> StaticAlloc, size |-> live[k].size]>>
    /\ last' = [op |-> "free", arg |-> live[k].size, cls |-> classify(live[k].size),
                ret |-> "none", alc |-> live[k].alc]
    /\ live' = [j \in 1 .. Len(live) - 1 |-> IF j < k THEN live[j] ELSE live[j + 1]]
    /\ UNCHANGED <<size, elem, poolVars>>

\* variable_wrapper::free(p, size), with the size p was allocated with;
\* last.alc keeps the allocator the block was drawn from.
VwFree(k) ==
    /\ k \in 1 .. Len(live)
    /\ calls' = <<[op |-> "free", alc |-> choose(live[k].size), size |-> live[k].size]>>
    /\ last' = [op |-> "free", arg |-> live[k].size, cls |-> classify(live[k].size),
                ret |-> "none", alc |-> live[k].alc]
    /\ live' = [j \in 1 .. Len(live) - 1 |-> IF j < k THEN live[j] ELSE live[j + 1]]
    /\ UNCHANGED <<size, elem, poolVars>>

\* Mutant of VwClear: the bucket of nominal size index * base_size is cleared.
VwClearOffByOne ==
    /\ calls' = [k \in 1 .. classes_size |->
                   [op |-> "clear", alc |-> Fixed(static_for(classes_size)[k] * base_size),
                    size |-> 0]]
    /\ last' = [NoOp EXCEPT !.op = "clear"]
    /\ UNCHANGED <<size, elem, live, poolVars>>

\* variable_wrapper::clear(): Fixed<(index + 1) * base_size>::clear() for every index
VwClear ==
    /\ calls' = [k \in 1 .. classes_size |->
                   [op |-> "clear",
                    alc |-> Fixed((static_for(classes_size)[k] + 1) * base_size),
                    size |-> 0]]
    /\ last' = [NoOp EXCEPT !.op = "clear"]
    /\ UNCHANGED <<size, elem, live, poolVars>>

\* ------------------------------------------------------------------------
\* allocator_wrapper<T, AllocP>, with AllocP = variable_wrapper
\* ------------------------------------------------------------------------
\* Mutant of max_size: the largest size_type value, not divided by sizeof(T).
max_sizeInBytes(sz) == SizeMax

\* max_size(): numeric_limits<size_type>::max() / sizeof(T)
max_size(sz) == SizeMax \div sz

\* allocate(count): size holds count, elem holds sizeof(T)
Allocate ==
    /\ IF size = 0 \/ size > max_size(elem)
       THEN /\ last' = [NoOp EXCEPT !.op = "allocate", !.arg = size, !.ret = "null"]
            /\ calls' = <<>>
            /\ UNCHANGED <<size, elem, live>>
       ELSE ForwardAlloc("allocate", size, (size * elem) % SizeMod)
    /\ UNCHANGED poolVars

DispatchNext ==
    \/ VwAlloc
    \/ \E k \in 1 .. MaxLive : VwFree(k)
    \/ VwClear
    \/ Allocate

\* ------------------------------------------------------------------------
\* Specifications
\* ------------------------------------------------------------------------
vars == <<poolVars, dispVars>>

Init == PoolInit /\ DispatchIdle

Next == PoolNext

Spec == Init /\ [][Next]_vars

DispatchStart == PoolInit /\ DispatchInit

DispatchSpec == DispatchStart /\ [][DispatchNext]_vars

\* ------------------------------------------------------------------------
\* Properties of the pool (checked under Spec)
\* ------------------------------------------------------------------------
\* The live proxies whose AllocP state is instance i
Holders(i) == {t \in Threads : tls_alc[t].live /\ tls_alc[t].state = i}

\* The pool slots <<engine, position>> that hold instance i
Slots(i) ==
    {p \in UNION {{<<e, k>> : k \in 1 .. Len(master_allocs_[e])} : e \in Engines} :
        master_allocs_[p[1]][p[2]] = i}

\* Positions at which the running operation reads or writes master_allocs_
ProxyAccess == {"ctor_check", "ctor_swap", "ctor_pop", "dtor_emplace"}

LockWait == {"ctor_lock", "dtor_lock", "clear_lock"}

LockHeld == {"ctor_check", "ctor_swap", "ctor_pop", "ctor_unlock", "dtor_emplace",
             "dtor_done", "clear_body", "clear_unlock"}

\* C1, as stated: every allocator instance ever created is held by exactly
\* one live proxy or sits in exactly one slot of a pool, never both and
\* never neither, unless clear() destroyed it.
C1_PoolOwnership ==
    \A i \in 1 .. nextInst :
        IF i \in cleared
        THEN Holders(i) = {} /\ Slots(i) = {}
        ELSE Cardinality(Holders(i)) + Cardinality(Slots(i)) = 1

\* C1, amended: every allocator instance ever created is held by exactly one
\* live proxy or sits in exactly one slot of a pool, never both and never
\* neither, unless clear() destroyed it or it is the never-used
\* default-constructed state that a checkout from a non-empty pool swaps
\* into the pool and destroys with pop_back().
C1_PoolOwnershipAmended ==
    \A i \in 1 .. nextInst :
        IF i \in cleared \cup popped
        THEN /\ Holders(i) = {}
             /\ Slots(i) = {}
             /\ i \in popped => i \notin touched /\ i \notin cleared
        ELSE Cardinality(Holders(i)) + Cardinality(Slots(i)) = 1

\* A proxy has checked a used instance out of the pool and its own
\* default-constructed state has been popped.
C1_Witness ==
    /\ popped # {}
    /\ \E t \in Threads : tls_alc[t].live /\ tls_alc[t].state \in touched

\* C6: a call of alloc or free by a thread that has called the same engine
\* before reaches the delegated AllocP call without having acquired any
\* master_lock_, and whoever holds a master_lock_ is inside a proxy
\* constructor, a proxy destructor or clear().
C6_LockFreeFastPath ==
    /\ \A t \in Threads :
          pc[t] = "serve" /\ call[t].e \in used[t] => call[t].acq = 0
    /\ \A e \in Engines : \A t \in master_lock_[e] : pc[t] \in LockHeld

\* A thread is about to be served on an engine it has used before.
C6_Witness ==
    \E t \in Threads : pc[t] = "serve" /\ call[t].e \in used[t] /\ call[t].acq = 0

\* C7, as stated: the step of clear() that empties the pool leaves every
\* proxy and every checked-out instance as it was, and a thread whose first
\* use of an engine begins after a clear() of that engine, with no check-in
\* since, is served by an instance nobody has used.
C7_ClearFrame ==
    [][/\ \A t \in Threads :
             pc[t] = "clear_body" /\ pc'[t] = "clear_unlock"
             => /\ master_allocs_'[call[t].e] = <<>>
                /\ tls_alc' = tls_alc
                /\ touched' = touched
       /\ \A t \in Threads :
             pc'[t] = "serve" /\ call'[t].afterClear /\ call'[t].e \notin used'[t]
             => tls_alc'[t].state \notin touched']_vars

\* C10: at most one thread holds the master_lock_ of an engine, and a thread
\* that is about to read or write master_allocs_ of an engine (empty, back,
\* pop_back, emplace_back, clear) holds that engine's master_lock_.
C10_PoolUnderLock ==
    /\ \A e \in Engines : Cardinality(master_lock_[e]) <= 1
    /\ \A t \in Threads :
          pc[t] \in ProxyAccess => t \in master_lock_[tls_alc[t].w_]
    /\ \A t \in Threads :
          pc[t] = "clear_body" => t \in master_lock_[call[t].e]

\* One thread is inside the critical section of an engine while another
\* waits for the same master_lock_.
C10_Witness ==
    \E t, u \in Threads :
        /\ t # u
        /\ pc[t] \in ProxyAccess \cup {"clear_body"}
        /\ pc[u] \in LockWait
        /\ call[u].e = call[t].e

\* ------------------------------------------------------------------------
\* Properties of the dispatcher (checked under DispatchSpec)
\* ------------------------------------------------------------------------
\* C2: a request of 1 .. base_size * classes_size bytes is classified to a
\* bucket index below classes_size, a larger one to the overflow sentinel,
\* which is classes_size.
C2_ClassifyTotal ==
    last.op \in {"alloc", "free"} =>
        /\ (1 <= last.arg /\ last.arg <= base_size * classes_size)
           => (0 <= last.cls /\ last.cls < classes_size)
        /\ last.arg > base_size * classes_size => last.cls = classes_size

\* The largest size of the last class has been classified.
C2_Witness ==
    /\ last.op = "alloc"
    /\ last.arg = base_size * classes_size
    /\ last.cls = classes_size - 1

\* C3: no size from 1 up to the classified request has a larger class than
\* the request, the sizes past the last class included.
C3_ClassifyMonotone ==
    (last.op \in {"alloc", "free"} /\ last.arg >= 1) =>
        \A s1 \in 1 .. last.arg : classify(s1) <= last.cls

\* A request in the interior of the table, above a group of two size steps,
\* has been classified.
C3_Witness ==
    /\ last.op = "alloc"
    /\ last.arg = 6 * base_size + 1
    /\ last.cls = 7

\* C4: free(p, s) is forwarded to the allocator that alloc(s) drew the block
\* from, whatever was allocated, freed or cleared in between.
C4_RoundTrip ==
    last.op = "free" =>
        /\ Len(calls) = 1
        /\ calls[1].op = "free"
        /\ calls[1].size = last.arg
        /\ calls[1].alc = last.alc

\* A block of a bucket has been freed while another block is outstanding.
C4_Witness ==
    /\ last.op = "free"
    /\ last.alc.kind = "Fixed"
    /\ Len(live) >= 1

\* C5: alloc(s) forwards exactly one call: for s in 1 .. base_size *
\* classes_size to the bucket of nominal size (classify(s) + 1) * base_size,
\* for a larger s to the fallback.
C5_DispatchTarget ==
    last.op = "alloc" =>
        /\ (1 <= last.arg /\ last.arg <= base_size * classes_size)
           => calls = <<[op |-> "alloc", alc |-> Fixed((last.cls + 1) * base_size),
                         size |-> last.arg]>>
        /\ last.arg > base_size * classes_size
           => calls = <<[op |-> "alloc", alc |-> StaticAlloc, size |-> last.arg]>>

\* A request of 4 * base_size + 1 bytes has gone to the bucket of 6 * base_size.
C5_Witness ==
    /\ last.op = "alloc"
    /\ last.arg = 4 * base_size + 1
    /\ calls = <<[op |-> "alloc", alc |-> Fixed(6 * base_size), size |-> last.arg]>>

C9_ClearAllBuckets ==
    last.op = "clear" =>
        /\ Len(calls) = classes_size
        /\ \A n \in 1 .. classes_size :
              Cardinality({k \in 1 .. Len(calls) :
                  calls[k] = [op |-> "clear", alc |-> Fixed(n * base_size), size |-> 0]}) = 1

\* clear() has run while a block was outstanding.
C9_Witness ==
    /\ last.op = "clear"
    /\ Len(live) >= 1
    /\ Len(calls) = classes_size

\* ------------------------------------------------------------------------
\* LIFO reuse (checked under LifoSpec)
\* ------------------------------------------------------------------------
\* The state after every thread has made its first call, all on the first
\* engine while its pool was empty: each thread holds a proxy bound to that
\* engine, with the instance the proxy default-constructed.
HeldStart ==
    /\ master_lock_ = [e \in Engines |-> {}]
    /\ master_allocs_ = [e \in Engines |-> <<>>]
    /\ tls_alc = [t \in Threads |-> [w_ |-> 1, state |-> t, live |-> TRUE]]
    /\ pc = [t \in Threads |-> "idle"]
    /\ call = [t \in Threads |-> NoCall]
    /\ used = [t \in Threads |-> {1}]
    /\ nextInst = NumThreads
    /\ ops = 0
    /\ cleared = {}
    /\ popped = {}
    /\ touched = Threads
    /\ sinceClear = [e \in Engines |-> FALSE]
    /\ order = <<>>
    /\ lifetime = [e \in Engines |-> "live"]
    /\ moved = [t \in Threads |-> NoProxy]
    /\ DispatchIdle

LifoSpec == HeldStart /\ [][Next]_vars

\* The position of the latest check-in of instance i, 0 when there is none
LastIn(i) ==
    IF \E k \in 1 .. Len(order) : order[k] = i
    THEN CHOOSE k \in 1 .. Len(order) :
             order[k] = i /\ \A j \in k + 1 .. Len(order) : order[j] # i
    ELSE 0

\* The instances that sit in the pool of engine e
Pooled(e) == {master_allocs_[e][k] : k \in 1 .. Len(master_allocs_[e])}

\* C11: a proxy constructed against a non-empty pool adopts the pooled
\* instance that was checked in last, and the constructor removes exactly
\* that instance from the pool (the entry it pops is the proxy's own unused
\* default state); against an empty pool the constructor changes neither
\* the pool nor the proxy, which keeps its unused default state.
C11_LifoCheckout ==
    [][\A t \in Threads :
          LET e == tls_alc[t].w_
              n == Len(master_allocs_[e])
          IN  /\ (pc[t] = "ctor_swap" /\ pc'[t] = "ctor_pop")
                  => /\ tls_alc'[t].state \in Pooled(e)
                     /\ \A j \in Pooled(e) : LastIn(j) <= LastIn(tls_alc'[t].state)
                     /\ LastIn(tls_alc'[t].state) > 0
                     /\ Pooled(e) \ Pooled(e)' = {tls_alc'[t].state}
                     /\ Pooled(e)' \ Pooled(e) = {tls_alc[t].state}
                     /\ master_allocs_'[e][n] = tls_alc[t].state
              /\ (pc[t] = "ctor_pop" /\ pc'[t] = "ctor_unlock")
                  => /\ Len(master_allocs_'[e]) = n - 1
                     /\ Pooled(e) \ Pooled(e)' = {master_allocs_[e][n]}
                     /\ master_allocs_[e][n] \notin touched
                     /\ LastIn(master_allocs_[e][n]) = 0
                     /\ tls_alc'[t] = tls_alc[t]
              /\ (pc[t] = "ctor_check" /\ pc'[t] = "ctor_unlock")
                  => /\ master_allocs_[e] = <<>>
                     /\ master_allocs_' = master_allocs_
                     /\ tls_alc'[t] = tls_alc[t]
                     /\ tls_alc[t].state \notin touched
                     /\ LastIn(tls_alc[t].state) = 0]_vars

\* Two instances were checked in, a new proxy has adopted the later one and
\* the earlier one is still pooled.
C11_Witness ==
    \E t \in Threads :
        /\ pc[t] = "ctor_unlock"
        /\ Len(order) >= 2
        /\ tls_alc[t].state = order[Len(order)]
        /\ master_allocs_[tls_alc[t].w_] = <<order[Len(order) - 1]>>

\* ------------------------------------------------------------------------
\* One proxy per thread and engine (checked under Spec)
\* ------------------------------------------------------------------------
\* C12, as stated: a call of alloc or free by thread t on engine e is served
\* by a proxy bound to e; on t's first call on e that proxy has just been
\* constructed, taking e's master_lock_ to check out; and when t exits, the
\* instance that served t's calls on e goes into the pool of e.
C12_ProxyPerEngine ==
    \A t \in Threads :
        /\ pc[t] = "serve"
           => /\ tls_alc[t].w_ = call[t].e
              /\ call[t].e \notin used[t] => call[t].acq = 1
        /\ pc[t] = "dtor_emplace" => used[t] \subseteq {tls_alc[t].w_}

\* ------------------------------------------------------------------------
\* Proxies without an engine and move construction (MoveSpec)
\* ------------------------------------------------------------------------
\* alloc_proxy(async_wrapper* w) with w == nullptr: the AllocP base is
\* default-constructed, w_ is set and the body returns at once.  The new
\* proxy is the thread's second proxy object, moved[t].
NullCtor(t) ==
    /\ pc[t] = "idle"
    /\ ops < MaxOps
    /\ ~moved[t].live
    /\ ops' = ops + 1
    /\ nextInst' = nextInst + 1
    /\ moved' = [moved EXCEPT ![t] = [w_ |-> NoEngine, state |-> nextInst + 1,
                                      live |-> TRUE]]
    /\ UNCHANGED <<master_lock_, master_allocs_, tls_alc, pc, call, used, cleared,
                   popped, touched, sinceClear, order, lifetime, dispVars>>

\* alloc_proxy(alloc_proxy&& rhs) : AllocP(std::move(rhs)) {} with rhs the
\* thread's proxy: the AllocP state moves to the new proxy, whose w_ takes
\* its default member initializer nullptr; rhs keeps its w_.
MoveCtor(t) ==
    /\ pc[t] = "idle"
    /\ ops < MaxOps
    /\ HasProxy(t)
    /\ ~moved[t].live
    /\ ops' = ops + 1
    /\ moved' = [moved EXCEPT ![t] = [w_ |-> NoEngine, state |-> tls_alc[t].state,
                                      live |-> TRUE]]
    /\ tls_alc' = [tls_alc EXCEPT ![t].state = NoInst]
    /\ UNCHANGED <<master_lock_, master_allocs_, pc, call, used, nextInst, cleared,
                   popped, touched, sinceClear, order, lifetime, dispVars>>

\* Mutant of MovedDtor: the destructor hands the state of a proxy without
\* an engine to the pool of the engine the thread's own proxy is bound to.
MovedDtorReturns(t) ==
    /\ pc[t] = "idle"
    /\ moved[t].live
    /\ IF tls_alc[t].w_ = NoEngine
       THEN UNCHANGED <<master_allocs_, order>>
       ELSE /\ LockFree(tls_alc[t].w_)
            /\ master_allocs_' = [master_allocs_ EXCEPT
                                     ![tls_alc[t].w_] = Append(@, moved[t].state)]
            /\ order' = Append(order, moved[t].state)
    /\ moved' = [moved EXCEPT ![t] = NoProxy]
    /\ UNCHANGED <<master_lock_, tls_alc, pc, call, used, nextInst, ops, cleared,
                   popped, touched, sinceClear, lifetime, dispVars>>

\* ~alloc_proxy() of the thread's second proxy: if (w_ == nullptr) return;
\* and the AllocP base is destroyed with the proxy.  With an engine the
\* destructor locks, appends and unlocks, taken here as one step.
MovedDtor(t) ==
    /\ pc[t] = "idle"
    /\ moved[t].live
    /\ IF moved[t].w_ = NoEngine
       THEN UNCHANGED <<master_allocs_, order>>
       ELSE /\ LockFree(moved[t].w_)
            /\ master_allocs_' = [master_allocs_ EXCEPT
                                     ![moved[t].w_] = Append(@, moved[t].state)]
            /\ order' = Append(order, moved[t].state)
    /\ moved' = [moved EXCEPT ![t] = NoProxy]
    /\ UNCHANGED <<master_lock_, tls_alc, pc, call, used, nextInst, ops, cleared,
                   popped, touched, sinceClear, lifetime, dispVars>>

MoveNext ==
    \/ PoolNext
    \/ \E t \in Threads : NullCtor(t)
    \/ \E t \in Threads : MoveCtor(t)
    \/ \E t \in Threads : MovedDtor(t)

MoveSpec == HeldStart /\ [][MoveNext]_vars

\* The thread's proxy has been moved from and not yet destroyed
MovedFrom(t) ==
    tls_alc[t].live /\ tls_alc[t].state = NoInst /\ pc[t] # "dtor_done"

\* C13, as stated: the destruction of a moved-from proxy acquires no
\* master_lock_ and appends nothing to any pool, and every pool entry is an
\* allocator instance, never the empty state a move leaves behind.
C13_MovedFromInert ==
    [][/\ \A t \in Threads :
             MovedFrom(t) /\ pc[t] \in {"dtor_lock", "dtor_emplace"} /\ pc'[t] # pc[t]
             => master_lock_' = master_lock_ /\ master_allocs_' = master_allocs_
       /\ \A e \in Engines : NoInst \notin Pooled(e)']_vars

\* C14: a step that constructs or destroys a proxy whose w_ is null leaves
\* every master_lock_ and every master_allocs_ as they were.
C14_UnboundNoOp ==
    [][\A t \in Threads :
          \/ ~moved[t].live /\ moved'[t].live /\ moved'[t].w_ = NoEngine
          \/ moved[t].live /\ moved[t].w_ = NoEngine /\ ~moved'[t].live
          => master_lock_' = master_lock_ /\ master_allocs_' = master_allocs_]_vars

\* A proxy without an engine, built by move construction from a proxy that
\* had checked out a used instance, is alive while that engine's pool holds
\* a spare instance.
C14_Witness ==
    \E t \in Threads :
        /\ moved[t].live
        /\ moved[t].w_ = NoEngine
        /\ moved[t].state # NoInst
        /\ MovedFrom(t)
        /\ master_allocs_[tls_alc[t].w_] # <<>>

\* ------------------------------------------------------------------------
\* Engine teardown (TeardownSpec)
\* ------------------------------------------------------------------------
\* Positions inside a call of alloc, free or clear
CallSteps == {"ctor_lock", "ctor_check", "ctor_swap", "ctor_pop", "ctor_unlock",
              "serve", "clear_lock", "clear_body", "clear_unlock"}

\* ~async_wrapper() begins on thread t.  The owner destroys an engine that
\* no thread is calling alloc, free or clear on; proxies bound to it may
\* exist and their threads may exit at any time.
Destroy(t, e) ==
    /\ pc[t] = "idle"
    /\ ops < MaxOps
    /\ lifetime[e] = "live"
    /\ \A u \in Threads : pc[u] \in CallSteps => call[u].e # e
    /\ ops' = ops + 1
    /\ lifetime' = [lifetime EXCEPT ![e] = "dying"]
    /\ call' = [call EXCEPT ![t] = [NoCall EXCEPT !.e = e]]
    /\ pc' = [pc EXCEPT ![t] = "td_lock"]
    /\ UNCHANGED <<master_lock_, master_allocs_, tls_alc, used, nextInst, cleared,
                   popped, touched, sinceClear, order, moved, dispVars>>

\* ~async_wrapper() { clear(); }: auto guard = unique_lock(master_lock_);
TdLock(t) ==
    /\ pc[t] = "td_lock"
    /\ LockFree(call[t].e)
    /\ Acquire(t, call[t].e)
    /\ pc' = [pc EXCEPT ![t] = "td_clear"]
    /\ UNCHANGED <<master_allocs_, tls_alc, used, nextInst, cleared, popped,
                   touched, sinceClear, ops, lifeVars, dispVars>>

\* ~async_wrapper() { clear(); }: master_allocs_.clear();
TdClear(t) ==
    LET e == call[t].e
    IN  /\ pc[t] = "td_clear"
        /\ master_allocs_' = [master_allocs_ EXCEPT ![e] = <<>>]
        /\ cleared' = cleared \cup Pooled(e)
        /\ pc' = [pc EXCEPT ![t] = "td_unlock"]
        /\ UNCHANGED <<master_lock_, tls_alc, call, used, nextInst, popped, touched,
                       sinceClear, ops, lifeVars, dispVars>>

\* ~async_wrapper() { clear(); }: clear() returns, its guard releases master_lock_
TdUnlock(t) ==
    /\ pc[t] = "td_unlock"
    /\ Release(t, call[t].e)
    /\ sinceClear' = [sinceClear EXCEPT ![call[t].e] = TRUE]
    /\ pc' = [pc EXCEPT ![t] = "td_members"]
    /\ UNCHANGED <<master_allocs_, tls_alc, call, used, nextInst, cleared, popped,
                   touched, ops, lifeVars, dispVars>>

\* After the destructor body the members are destroyed, without the lock:
\* the vector destroys what it holds and releases its storage, and the
\* engine is gone.
TdMembers(t) ==
    LET e == call[t].e
    IN  /\ pc[t] = "td_members"
        /\ master_allocs_' = [master_allocs_ EXCEPT ![e] = <<>>]
        /\ cleared' = cleared \cup Pooled(e)
        /\ lifetime' = [lifetime EXCEPT ![e] = "dead"]
        /\ call' = [call EXCEPT ![t] = NoCall]
        /\ pc' = [pc EXCEPT ![t] = "idle"]
        /\ UNCHANGED <<master_lock_, tls_alc, used, nextInst, popped, touched,
                       sinceClear, ops, order, moved, dispVars>>

\* The proxy destructor of thread t is working through a w_ that points to
\* a destroyed engine
Dangling(t) ==
    /\ pc[t] \in {"dtor_lock", "dtor_emplace", "dtor_done"}
    /\ tls_alc[t].w_ # NoEngine
    /\ lifetime[tls_alc[t].w_] = "dead"

\* A use of a destroyed engine is undefined: besides going on as if the
\* memory were intact (DtorLock, DtorEmplace, DtorDone), or waiting for ever
\* for a lock word that never reads free, the process may fault.
Fault(t) ==
    /\ Dangling(t)
    /\ pc' = [u \in Threads |-> "fault"]
    /\ UNCHANGED <<master_lock_, master_allocs_, tls_alc, call, used, nextInst,
                   ops, cleared, popped, touched, sinceClear, lifeVars, dispVars>>

\* alloc, free and clear are called on engines that have not been destroyed
LiveAlloc(t, e) == lifetime[e] = "live" /\ Alloc(t, e)

LiveFree(t, e) == lifetime[e] = "live" /\ Free(t, e)

LiveClear(t, e) == lifetime[e] = "live" /\ Clear(t, e)

TeardownNext ==
    \/ \E t \in Threads, e \in Engines : LiveAlloc(t, e)
    \/ \E t \in Threads, e \in Engines : LiveFree(t, e)
    \/ \E t \in Threads, e \in Engines : LiveClear(t, e)
    \/ \E t \in Threads : CtorLock(t)
    \/ \E t \in Threads : CtorCheck(t)
    \/ \E t \in Threads : CtorSwap(t)
    \/ \E t \in Threads : CtorPop(t)
    \/ \E t \in Threads : CtorUnlock(t)
    \/ \E t \in Threads : Serve(t)
    \/ \E t \in Threads : ThreadExit(t)
    \/ \E t \in Threads : DtorLock(t)
    \/ \E t \in Threads : DtorEmplace(t)
    \/ \E t \in Threads : DtorDone(t)
    \/ \E t \in Threads : ClearLock(t)
    \/ \E t \in Threads : ClearBody(t)
    \/ \E t \in Threads : ClearUnlock(t)
    \/ \E t \in Threads, e \in Engines : Destroy(t, e)
    \/ \E t \in Threads : TdLock(t)
    \/ \E t \in Threads : TdClear(t)
    \/ \E t \in Threads : TdUnlock(t)
    \/ \E t \in Threads : TdMembers(t)
    \/ \E t \in Threads : Fault(t)

TeardownSpec == Init /\ [][TeardownNext]_vars

\* C15, as stated: the destructor's clear() empties the pool, the pool is
\* empty when the members are destroyed and the storage is released, and no
\* step of the destructor changes a proxy or the instance it holds.
C15_Teardown ==
    [][\A t \in Threads :
          /\ (pc[t] = "td_clear" /\ pc'[t] = "td_unlock")
             => master_allocs_'[call[t].e] = <<>>
          /\ (pc[t] = "td_members" /\ pc'[t] = "idle")
             => master_allocs_[call[t].e] = <<>>
          /\ (pc[t] \in {"td_lock", "td_clear", "td_unlock", "td_members"}
              /\ pc'[t] # pc[t])
             => tls_alc' = tls_alc /\ moved' = moved]_vars

\* C19, as stated: no proxy destructor takes the master_lock_ of, or appends
\* to the master_allocs_ of, an engine whose destructor has completed.
C19_NoTornDownAccess ==
    [][\A t \in Threads :
          (/\ pc[t] \in {"dtor_lock", "dtor_emplace"}
           /\ pc'[t] \in {"dtor_emplace", "dtor_done"}
           /\ pc'[t] # pc[t]
           /\ tls_alc[t].w_ # NoEngine)
          => lifetime[tls_alc[t].w_] # "dead"]_vars

\* ------------------------------------------------------------------------
\* Progress of the pool operations (FairSpec)
\* ------------------------------------------------------------------------
\* The steps of thread t inside an operation it has begun.  A thread that
\* can take a step is scheduled in the end; nothing obliges a thread to
\* begin an operation.
Continue(t) ==
    \/ CtorLock(t)
    \/ CtorCheck(t)
    \/ CtorSwap(t)
    \/ CtorPop(t)
    \/ CtorUnlock(t)
    \/ Serve(t)
    \/ DtorLock(t)
    \/ DtorEmplace(t)
    \/ DtorDone(t)
    \/ ClearLock(t)
    \/ ClearBody(t)
    \/ ClearUnlock(t)

\* The operations a thread can begin
Begin(t) ==
    \/ \E e \in Engines : Alloc(t, e)
    \/ \E e \in Engines : Free(t, e)
    \/ \E e \in Engines : Clear(t, e)
    \/ ThreadExit(t)

\* Runs of at most FairOps operations
FairNext ==
    \/ \E t \in Threads : ops < FairOps /\ Begin(t)
    \/ \E t \in Threads : Continue(t)

FairSpec == HeldStart /\ [][FairNext]_vars /\ \A t \in Threads : WF_vars(Continue(t))

\* Thread t holds no master_lock_
NoLock(t) == \A e \in Engines : t \notin master_lock_[e]

C17_SizeGuard ==
    last.op = "allocate" =>
        IF last.arg = 0 \/ last.arg > (2 ^ SizeBits - 1) \div elem
        THEN last.ret = "null" /\ calls = <<>>
        ELSE /\ Len(calls) = 1
             /\ calls[1].op = "alloc"
             /\ calls[1].size = last.arg * elem
             /\ last.arg * elem <= 2 ^ SizeBits - 1

\* allocate has been refused for a count just past max_size() of an
\* 8-byte element type, whose byte size would have wrapped.
C17_Witness ==
    /\ last.op = "allocate"
    /\ elem = 8
    /\ last.arg = (2 ^ SizeBits - 1) \div 8 + 1
    /\ last.arg * elem > 2 ^ SizeBits - 1
    /\ last.ret = "null"
    /\ calls = <<>>

\* C18: a request of 1 .. base_size * classes_size bytes goes to a bucket
\* whose nominal size (classify(s) + 1) * base_size is at least the request,
\* and every table entry is at least its own index.
C18_BucketFits ==
    /\ (last.op \in {"alloc", "free"}
        /\ 1 <= last.arg /\ last.arg <= base_size * classes_size)
       => /\ last.alc = Fixed((last.cls + 1) * base_size)
          /\ last.alc.n >= last.arg
    /\ \A i \in 0 .. classes_size - 1 : table[i + 1] >= i

\* A request of 5 * base_size bytes has been served by the bucket of
\* 6 * base_size bytes.
C18_Witness ==
    /\ last.op = "alloc"
    /\ last.arg = 5 * base_size
    /\ last.alc = Fixed(6 * base_size)
    /\ last.ret = "ptr"
====
